---- MODULE Spec2Model ----
(***************************************************************************)
(* To-Do-ListAPI.py: a FastAPI application over one SQLite table "tasks",  *)
(* accessed through SQLAlchemy ORM sessions, one session per request.      *)
(*                                                                         *)
(* Two specifications:                                                     *)
(*   Spec      one request at a time; every action is a whole handler.     *)
(*   SpecConc  two requests in flight on one record; every action is one   *)
(*             database round trip of a handler (SELECT, flush + COMMIT,   *)
(*             refresh), interleaved arbitrarily.                          *)
(*                                                                         *)
(* A nullable value is None (<<>>) or Some(v) (<<v>>).                     *)
(***************************************************************************)
EXTENDS Integers, Sequences, FiniteSets, TLC

VARIABLES
    store,      \* table "tasks": the set of its rows
    issued,     \* history: every primary key an INSERT has been given
    request,    \* Spec: the route last served, [op, task_id]
    response,   \* Spec: its response, [status, task, tasks]
    pc,         \* SpecConc: per request, the handler's position
    req,        \* SpecConc: per request, [op, task_id, task]
    db_task,    \* SpecConc: per request, the ORM object its session loaded
    resp,       \* SpecConc: per request, its response (None while in flight)
    writers     \* SpecConc: history, the requests whose commit wrote to the
                \*           table, in commit order

vars == <<store, issued, request, response, pc, req, db_task, resp, writers>>
seqVars == <<request, response>>
concVars == <<pc, req, db_task, resp, writers>>

\* ------------------------------------------------------------------ bounds

\* The largest primary key handed out: create_task is not offered when the
\* next key would pass it, so the table holds at most MaxTasks rows.
MaxTasks == 2

\* ------------------------------------------------------------------ values

None == <<>>
Some(v) == <<v>>

Fields == {"title", "description", "done"}
\* One title is enough: a stored title is never null, and what the handlers do
\* with a string value shows on description, which has two stored values.
Titles == {"a"}
Descriptions == {"x"}

\* The values a JSON body can carry for a field: null or a value of its type.
TitleValues == {None} \cup {Some(t) : t \in Titles}
DescriptionValues == {None} \cup {Some(d) : d \in Descriptions}
DoneValues == {None} \cup {Some(b) : b \in BOOLEAN}

\* JSON request bodies: any subset of the three fields, each null or a value.
Body(F, t, d, b) ==
    [k \in F |-> IF k = "title" THEN t ELSE IF k = "description" THEN d ELSE b]
Bodies == {Body(F, t, d, b) : F \in SUBSET Fields, t \in TitleValues,
                              d \in DescriptionValues, b \in DoneValues}

\* Path parameter task_id: every key the table can hold (a key not yet handed
\* out, or deleted, is one no stored task has).
TaskIds == 1 .. MaxTasks

\* Query parameters skip and limit: negative, zero, and up to the table's size.
PageInts == (0 - 1) .. MaxTasks

\* -------------------------------------------------------------- the table

\* class Task: the row of a task, as the ORM object holds it.
Task(id, title, description, done) ==
    [id |-> id, title |-> title, description |-> description, done |-> done]

Ids(s) == {r.id : r \in s}

SetMax(S) == CHOOSE x \in S : \A y \in S : y <= x

\* Off by one: the largest key, not one more.
NextRowidMax(s) == IF s = {} THEN 1 ELSE SetMax(Ids(s))

\* Counting the rows: the key is the number of rows plus one.
NextRowidCount(s) == Cardinality(s) + 1

\* id = Column(Integer, primary_key=True): SQLite's INTEGER PRIMARY KEY without
\* AUTOINCREMENT is the rowid: one more than the largest key in the table, 1
\* for an empty table.
NextRowid(s) == IF s = {} THEN 1 ELSE SetMax(Ids(s)) + 1

\* db.query(Task).filter(Task.id == task_id).first()
QueryFirst(s, task_id) ==
    IF \E r \in s : r.id = task_id
    THEN Some(CHOOSE r \in s : r.id = task_id)
    ELSE None

RECURSIVE ByRowid(_)
ByRowid(s) ==
    IF s = {} THEN <<>>
    ELSE LET last == CHOOSE r \in s : \A o \in s : o.id <= r.id
         IN Append(ByRowid(s \ {last}), last)

\* db.query(Task) with no ORDER BY: SQLite scans the table in rowid order.
QueryAll(s) == ByRowid(s)

\* .offset(skip): SQLite takes a negative OFFSET as 0.
Offset(rows, skip) ==
    IF skip <= 0 THEN rows
    ELSE IF skip >= Len(rows) THEN <<>>
    ELSE SubSeq(rows, skip + 1, Len(rows))

\* .limit(limit): SQLite takes a negative LIMIT as no limit.
Limit(rows, limit) ==
    IF limit < 0 \/ limit >= Len(rows) THEN rows ELSE SubSeq(rows, 1, limit)

\* ---------------------------------------------------------- the schemas

\* class TaskCreate(TaskBase): title is required and not null, description is
\* optional, done is a bool (null is refused) defaulting to False.
TaskCreateAccepts(body) ==
    /\ "title" \in DOMAIN body /\ body["title"] # None
    /\ "done" \in DOMAIN body => body["done"] # None

TaskCreate(body) ==
    [title |-> body["title"],
     description |-> IF "description" \in DOMAIN body THEN body["description"] ELSE None,
     done |-> IF "done" \in DOMAIN body THEN body["done"] ELSE Some(FALSE)]

\* class TaskUpdate: every field Optional with default None; the instance
\* remembers which fields the body set.
TaskUpdate(body) ==
    [fields |-> [k \in Fields |-> IF k \in DOMAIN body THEN body[k] ELSE None],
     fields_set |-> DOMAIN body]

\* task.dict(exclude_unset=True)
DictExcludeUnset(task) == [k \in task.fields_set |-> task.fields[k]]

\* response_model=TaskInDB: id an int, title a str, done a bool; description
\* may be null. A row that does not validate is a server error.
TaskInDBAccepts(row) == row.title # None /\ row.done # None

\* ------------------------------------------------------- session flushes

\* for key, value in update_data.items(): setattr(db_task, key, value)
SetAttrs(row, update_data) ==
    [k \in DOMAIN row |-> IF k \in DOMAIN update_data THEN update_data[k] ELSE row[k]]

\* The attributes whose value differs from the one the session loaded: the
\* unit of work writes only these.
NetChanges(loaded, row) == {k \in Fields : row[k] # loaded[k]}

\* title = Column(String, nullable=False): the only NOT NULL column besides
\* the key.
NotNullOk(row) == row.title # None

\* db.commit() of update_task: the flush emits
\*   UPDATE tasks SET <net changes> WHERE id = ?
\* and nothing when there is no net change. It fails (the transaction rolls
\* back) when a NOT NULL column is set to NULL or when no row matched.
FlushUpdate(s, loaded, row) ==
    LET changed == NetChanges(loaded, row) IN
    IF changed = {} THEN [ok |-> TRUE, wrote |-> FALSE, store |-> s]
    ELSE IF ~NotNullOk(row) \/ loaded.id \notin Ids(s)
         THEN [ok |-> FALSE, wrote |-> FALSE, store |-> s]
    ELSE [ok |-> TRUE, wrote |-> TRUE,
          store |-> {IF r.id = loaded.id
                     THEN [k \in DOMAIN r |-> IF k \in changed THEN row[k] ELSE r[k]]
                     ELSE r : r \in s}]

\* A DELETE that matched no row raises, as an UPDATE does.
FlushDeleteStale(s, loaded) ==
    IF loaded.id \in Ids(s)
    THEN [ok |-> TRUE, wrote |-> TRUE, store |-> {r \in s : r.id # loaded.id}]
    ELSE [ok |-> FALSE, wrote |-> FALSE, store |-> s]

\* The DELETE is never committed.
FlushDeleteNoCommit(s, loaded) ==
    [ok |-> TRUE, wrote |-> FALSE, store |-> s]

\* db.delete(db_task); db.commit(): DELETE FROM tasks WHERE id = ?. A DELETE
\* that matches no row only warns.
FlushDelete(s, loaded) ==
    [ok |-> TRUE, wrote |-> loaded.id \in Ids(s), store |-> {r \in s : r.id # loaded.id}]

\* db.add(db_task); db.commit(); db.refresh(db_task): INSERT with the key
\* SQLite assigns, read back.
InsertedRow(s, task) == Task(NextRowid(s), task.title, task.description, task.done)
FlushInsert(s, task) == s \cup {InsertedRow(s, task)}

\* ------------------------------------------------------------- responses

Response(status, task, tasks) == [status |-> status, task |-> task, tasks |-> tasks]

\* A handler returned one row: serialised through response_model=TaskInDB.
RowResponse(status, row) ==
    IF TaskInDBAccepts(row) THEN Response(status, Some(row), <<>>)
    ELSE Response(500, None, <<>>)

\* A handler returned rows: serialised through response_model=List[TaskInDB].
RowsResponse(rows) ==
    IF \A i \in 1 .. Len(rows) : TaskInDBAccepts(rows[i])
    THEN Response(200, None, rows)
    ELSE Response(500, None, <<>>)

\* raise HTTPException(status_code=404, detail="Tarefa não encontrada")
NotFound == Response(404, None, <<>>)

\* An exception no handler catches: FastAPI answers 500.
ServerError == Response(500, None, <<>>)

Route(op, task_id) == [op |-> op, task_id |-> task_id]

\* ------------------------------------------------ SpecConc: the requests

Clients == {1, 2}
NoRequest == [op |-> "none", task_id |-> 0, task |-> <<>>]
Idle ==
    /\ pc = [p \in Clients |-> "idle"]
    /\ req = [p \in Clients |-> NoRequest]
    /\ db_task = [p \in Clients |-> None]
    /\ resp = [p \in Clients |-> None]
    /\ writers = <<>>

\* ------------------------------------------- Spec: one request at a time

Init ==
    /\ store = {}
    /\ issued = {}
    /\ request = Route("read_root", 0)
    /\ response = Response(200, None, <<>>)
    /\ Idle

\* GET /
read_root ==
    /\ request' = Route("read_root", 0)
    /\ response' = Response(200, None, <<>>)
    /\ UNCHANGED <<store, issued>>
    /\ UNCHANGED concVars

\* POST /tasks/
create_task(body) ==
    /\ NextRowid(store) <= MaxTasks
    /\ request' = Route("create_task", 0)
    /\ IF ~TaskCreateAccepts(body)
       THEN /\ response' = Response(422, None, <<>>)
            /\ UNCHANGED <<store, issued>>
       ELSE /\ store' = FlushInsert(store, TaskCreate(body))
            /\ issued' = issued \cup {InsertedRow(store, TaskCreate(body)).id}
            /\ response' = RowResponse(201, InsertedRow(store, TaskCreate(body)))
    /\ UNCHANGED concVars

\* GET /tasks/
read_tasks(skip, limit) ==
    /\ request' = Route("read_tasks", 0)
    /\ response' = RowsResponse(Limit(Offset(QueryAll(store), skip), limit))
    /\ UNCHANGED <<store, issued>>
    /\ UNCHANGED concVars

\* What read_task answers from table s.
ReadOutcome(s, task_id) ==
    IF QueryFirst(s, task_id) = None THEN NotFound
    ELSE RowResponse(200, QueryFirst(s, task_id)[1])

\* GET /tasks/{task_id}
read_task(task_id) ==
    /\ request' = Route("read_task", task_id)
    /\ response' = ReadOutcome(store, task_id)
    /\ UNCHANGED <<store, issued>>
    /\ UNCHANGED concVars

\* db.refresh(db_task); return db_task: the row is read back by its key (it is
\* an error if it is gone) and serialised.
Refreshed(s, task_id) ==
    IF QueryFirst(s, task_id) = None THEN ServerError
    ELSE RowResponse(200, QueryFirst(s, task_id)[1])

\* What update_task does to table s and answers.
UpdateOutcome(s, task_id, body) ==
    IF QueryFirst(s, task_id) = None THEN [store |-> s, response |-> NotFound]
    ELSE LET loaded == QueryFirst(s, task_id)[1]
             f == FlushUpdate(s, loaded, SetAttrs(loaded, DictExcludeUnset(TaskUpdate(body))))
         IN IF ~f.ok THEN [store |-> s, response |-> ServerError]
            ELSE [store |-> f.store, response |-> Refreshed(f.store, task_id)]

\* PUT /tasks/{task_id}
update_task(task_id, body) ==
    /\ request' = Route("update_task", task_id)
    /\ store' = UpdateOutcome(store, task_id, body).store
    /\ response' = UpdateOutcome(store, task_id, body).response
    /\ UNCHANGED issued
    /\ UNCHANGED concVars

\* The existence check is missing: every delete answers 204.
delete_task_unchecked(task_id) ==
    /\ request' = Route("delete_task", task_id)
    /\ store' = {r \in store : r.id # task_id}
    /\ response' = Response(204, None, <<>>)
    /\ UNCHANGED issued
    /\ UNCHANGED concVars

\* DELETE /tasks/{task_id}
delete_task(task_id) ==
    /\ request' = Route("delete_task", task_id)
    /\ IF QueryFirst(store, task_id) = None
       THEN /\ response' = NotFound
            /\ UNCHANGED store
       ELSE /\ store' = FlushDelete(store, QueryFirst(store, task_id)[1]).store
            /\ response' = Response(204, None, <<>>)
    /\ UNCHANGED issued
    /\ UNCHANGED concVars

Next ==
    \/ read_root
    \/ \E body \in Bodies : create_task(body)
    \/ \E skip \in PageInts, limit \in PageInts : read_tasks(skip, limit)
    \/ \E task_id \in TaskIds : read_task(task_id)
    \/ \E task_id \in TaskIds, body \in Bodies : update_task(task_id, body)
    \/ \E task_id \in TaskIds : delete_task(task_id)

Spec == Init /\ [][Next]_vars

\* ------------------------------- SpecConc: two requests on one record

\* The request bodies of SpecConc: those that carry no null.
ConcBodies == {b \in Bodies : \A k \in DOMAIN b : b[k] # None}

\* The tables SpecConc starts from: one task, as a create_task on the empty
\* table stores it.
SeedStores == {FlushInsert({}, TaskCreate(body)) : body \in {b \in Bodies : TaskCreateAccepts(b)}}

InitConc ==
    /\ store \in SeedStores
    /\ issued = Ids(store)
    /\ request = Route("read_root", 0)
    /\ response = Response(200, None, <<>>)
    /\ Idle

\* update_task, line 107: the session's SELECT, and the 404 when it finds
\* nothing.
start_update(p, task_id, body) ==
    /\ pc[p] = "idle"
    /\ req' = [req EXCEPT ![p] = [op |-> "update_task", task_id |-> task_id, task |-> body]]
    /\ db_task' = [db_task EXCEPT ![p] = QueryFirst(store, task_id)]
    /\ IF QueryFirst(store, task_id) = None
       THEN /\ resp' = [resp EXCEPT ![p] = Some(NotFound)]
            /\ pc' = [pc EXCEPT ![p] = "done"]
       ELSE /\ pc' = [pc EXCEPT ![p] = "loaded"]
            /\ UNCHANGED resp
    /\ UNCHANGED <<store, issued, writers>>
    /\ UNCHANGED seqVars

\* update_task, lines 111 to 117: the attributes are set on the loaded object
\* and the session flushes and commits.
commit_update(p) ==
    /\ pc[p] = "loaded"
    /\ req[p].op = "update_task"
    /\ LET loaded == db_task[p][1]
           f == FlushUpdate(store, loaded,
                            SetAttrs(loaded, DictExcludeUnset(TaskUpdate(req[p].task))))
       IN IF ~f.ok
          THEN /\ resp' = [resp EXCEPT ![p] = Some(ServerError)]
               /\ pc' = [pc EXCEPT ![p] = "done"]
               /\ UNCHANGED <<store, writers>>
          ELSE /\ store' = f.store
               /\ writers' = IF f.wrote THEN Append(writers, p) ELSE writers
               /\ pc' = [pc EXCEPT ![p] = "committed"]
               /\ UNCHANGED resp
    /\ UNCHANGED <<issued, req, db_task>>
    /\ UNCHANGED seqVars

\* update_task, lines 118 and 119: the row is read back and returned.
refresh_update(p) ==
    /\ pc[p] = "committed"
    /\ resp' = [resp EXCEPT ![p] = Some(Refreshed(store, req[p].task_id))]
    /\ pc' = [pc EXCEPT ![p] = "done"]
    /\ UNCHANGED <<store, issued, req, db_task, writers>>
    /\ UNCHANGED seqVars

\* delete_task, line 126: the session's SELECT, and the 404 when it finds
\* nothing.
start_delete(p, task_id) ==
    /\ pc[p] = "idle"
    /\ req' = [req EXCEPT ![p] = [op |-> "delete_task", task_id |-> task_id, task |-> <<>>]]
    /\ db_task' = [db_task EXCEPT ![p] = QueryFirst(store, task_id)]
    /\ IF QueryFirst(store, task_id) = None
       THEN /\ resp' = [resp EXCEPT ![p] = Some(NotFound)]
            /\ pc' = [pc EXCEPT ![p] = "done"]
       ELSE /\ pc' = [pc EXCEPT ![p] = "loaded"]
            /\ UNCHANGED resp
    /\ UNCHANGED <<store, issued, writers>>
    /\ UNCHANGED seqVars

\* delete_task, lines 129 to 131: the session flushes the DELETE, commits, and
\* the handler answers 204.
commit_delete(p) ==
    /\ pc[p] = "loaded"
    /\ req[p].op = "delete_task"
    /\ LET f == FlushDelete(store, db_task[p][1])
       IN IF ~f.ok
          THEN /\ resp' = [resp EXCEPT ![p] = Some(ServerError)]
               /\ UNCHANGED <<store, writers>>
          ELSE /\ store' = f.store
               /\ writers' = IF f.wrote THEN Append(writers, p) ELSE writers
               /\ resp' = [resp EXCEPT ![p] = Some(Response(204, None, <<>>))]
    /\ pc' = [pc EXCEPT ![p] = "done"]
    /\ UNCHANGED <<issued, req, db_task>>
    /\ UNCHANGED seqVars

NextConc ==
    \/ \E p \in Clients, task_id \in TaskIds, body \in ConcBodies : start_update(p, task_id, body)
    \/ \E p \in Clients : commit_update(p)
    \/ \E p \in Clients : refresh_update(p)
    \/ \E p \in Clients, task_id \in TaskIds : start_delete(p, task_id)
    \/ \E p \in Clients : commit_delete(p)

SpecConc == InitConc /\ [][NextConc]_vars

\* ------------------------------------------------- properties under Spec

RowOf(s, task_id) == CHOOSE r \in s : r.id = task_id

\* C1: partial update. For an existing task and any update body, update_task
\* overwrites exactly the fields present in the body, leaves the absent
\* fields and the id at their prior value, and returns the stored record.
C1_PartialUpdate ==
    [][\A task_id \in TaskIds, body \in Bodies :
         (/\ task_id \in Ids(store)
          /\ request' = Route("update_task", task_id)
          /\ update_task(task_id, body)) =>
            /\ task_id \in Ids(store')
            /\ \A k \in DOMAIN body : RowOf(store', task_id)[k] = body[k]
            /\ \A k \in Fields \ DOMAIN body :
                  RowOf(store', task_id)[k] = RowOf(store, task_id)[k]
            /\ response'.task = Some(RowOf(store', task_id))]_vars

\* The extent of C1's failure: a body that carries no null is applied to the
\* stored row as C1 says (present fields overwritten, absent fields kept).
UpdateOfValuesOverwrites ==
    [][\A task_id \in TaskIds, body \in ConcBodies :
         (/\ task_id \in Ids(store)
          /\ request' = Route("update_task", task_id)
          /\ update_task(task_id, body)) =>
            /\ task_id \in Ids(store')
            /\ \A k \in DOMAIN body : RowOf(store', task_id)[k] = body[k]
            /\ \A k \in Fields \ DOMAIN body :
                  RowOf(store', task_id)[k] = RowOf(store, task_id)[k]
            /\ RowOf(store', task_id).done # None =>
                  response' = Response(200, Some(RowOf(store', task_id)), <<>>)]_vars

\* C2: every stored task has done equal to true or false, never null.
C2_DoneNeverNull == \A r \in store : r.done \in {Some(TRUE), Some(FALSE)}

\* C3: for an id that exists and any body TaskUpdate accepts, update_task
\* responds 200 with the updated record; the only failure response of an
\* update is 404.
C3_UpdateAnswers200 ==
    [][\A task_id \in TaskIds, body \in Bodies :
         (request' = Route("update_task", task_id) /\ update_task(task_id, body)) =>
            /\ response'.status \in {200, 404}
            /\ task_id \in Ids(store) =>
                  /\ response'.status = 200
                  /\ response'.task # None]_vars

\* C4: read_task, update_task and delete_task on an id that no stored task has
\* each respond 404 and leave the stored tasks as they were.
C4_MissingIdIs404 ==
    [][\A task_id \in TaskIds :
         (/\ task_id \notin Ids(store)
          /\ request'.task_id = task_id
          /\ \/ read_task(task_id)
             \/ delete_task(task_id)
             \/ \E body \in Bodies : update_task(task_id, body))
         => (response'.status = 404 /\ store' = store)]_vars

\* C4's case: an update of a missing id was answered while a task is stored.
C4_Witness ==
    /\ request.op = "update_task"
    /\ request.task_id \notin Ids(store)
    /\ store # {}
    /\ response.status = 404

\* C5: a delete_task answered 204 was of a stored task, has removed that row
\* and no other, and a read_task of the same id served next answers 404.
C5_DeleteRemoves ==
    [][/\ \A task_id \in TaskIds :
            (response'.status = 204 /\ delete_task(task_id)) =>
               /\ task_id \in Ids(store)
               /\ store' = store \ {RowOf(store, task_id)}
               /\ ReadOutcome(store', task_id).status = 404
       /\ \A task_id \in TaskIds :
            (/\ request = Route("delete_task", task_id)
             /\ response.status = 204
             /\ read_task(task_id)) => response'.status = 404]_vars

\* C5's case: a delete was answered 204 and another task is still stored.
C5_Witness ==
    /\ request.op = "delete_task"
    /\ response.status = 204
    /\ request.task_id \notin Ids(store)
    /\ store # {}

IntMax(a, b) == IF a >= b THEN a ELSE b
IntMin(a, b) == IF a <= b THEN a ELSE b

\* The stored tasks that follow the first skip tasks, at most limit of them.
Page(rows, skip, limit) ==
    LET first == IntMax(skip, 0)
        n == IntMin(IntMax(limit, 0), IntMax(Len(rows) - first, 0))
    IN [i \in 1 .. n |-> rows[first + i]]

\* C6: for every integer skip and limit, read_tasks returns the stored tasks
\* that follow the first skip tasks in the store's order, at most limit of
\* them.
C6_ListPage ==
    [][\A skip \in PageInts, limit \in PageInts :
         (request'.op = "read_tasks" /\ read_tasks(skip, limit)) =>
            /\ response'.status = 200
            /\ Len(response'.tasks) <= IntMax(limit, 0)
            /\ response'.tasks = Page(QueryAll(store), skip, limit)]_vars

\* The extent of C6's failure: with skip and limit not negative, and no stored
\* task with a null done, the page is as C6 says.
ListPageNonNegative ==
    [][\A skip \in PageInts, limit \in PageInts :
         (/\ skip >= 0 /\ limit >= 0
          /\ \A r \in store : r.done # None
          /\ request'.op = "read_tasks"
          /\ read_tasks(skip, limit)) =>
            /\ response'.status = 200
            /\ Len(response'.tasks) <= limit
            /\ response'.tasks = Page(QueryAll(store), skip, limit)]_vars

UniqueIds(s) == \A r1 \in s, r2 \in s : r1.id = r2.id => r1 = r2

\* C7: no two stored tasks share an id, and a stored id leaves the table only
\* by its delete_task and enters it only by a create_task: no update,
\* whatever its body, changes the ids of the stored tasks.
C7_IdsUniqueAndStable ==
    [][/\ UniqueIds(store')
       /\ \A i \in Ids(store) \ Ids(store') : delete_task(i)
       /\ Ids(store') \ Ids(store) # {} => \E body \in Bodies : create_task(body)
       /\ request'.op = "update_task" => Ids(store') = Ids(store)]_vars

\* C7's case: an update was answered 200 while two tasks are stored.
C7_Witness ==
    /\ request.op = "update_task"
    /\ response.status = 200
    /\ Cardinality(store) = 2
    /\ Cardinality(Ids(store)) = 2

\* C9 as claimed: create_task never hands out an id that an earlier task of
\* the run had, deleted tasks included.
C9_NeverReused ==
    [][\A body \in Bodies :
         (request'.op = "create_task" /\ response'.status = 201 /\ create_task(body)) =>
            response'.task[1].id \notin issued]_vars

\* C9 amended: create_task hands out an id greater than the id of every task
\* stored at that moment, so an id no stored task has.
C9_FreshAmongStored ==
    [][\A body \in Bodies :
         (request'.op = "create_task" /\ response'.status = 201 /\ create_task(body)) =>
            /\ response'.task[1].id \notin Ids(store)
            /\ \A i \in Ids(store) : i < response'.task[1].id
            /\ response'.task[1] \in store']_vars

\* C9's case: a create was answered with id 1 after id 2 had been handed
\* out. Id 2 is only handed out while a task with id 1 is stored, so id 1 had
\* been handed out before, its task was deleted, and this create reused it.
C9_Witness ==
    /\ request.op = "create_task"
    /\ response.status = 201
    /\ response.task # None
    /\ response.task[1].id = 1
    /\ 2 \in issued

\* --------------------------------------------- properties under SpecConc

\* Both requests have been answered, and they are op on the same task_id.
BothDone(p, q, op) ==
    /\ p # q
    /\ pc[p] = "done" /\ pc[q] = "done"
    /\ req[p].op = op /\ req[q].op = op
    /\ req[p].task_id = req[q].task_id

\* C8: last writer wins. When two update_task requests on the same record have
\* both written and committed, every field both supplied holds the value of
\* the one that committed last, and its response shows the values it supplied.
C8_LastWriterWins ==
    \A p \in Clients, q \in Clients :
        (BothDone(p, q, "update_task") /\ writers = <<q, p>>) =>
            /\ \A k \in DOMAIN req[p].task \cap DOMAIN req[q].task :
                  RowOf(store, req[p].task_id)[k] = req[p].task[k]
            /\ resp[p][1].status = 200
            /\ \A k \in DOMAIN req[p].task : resp[p][1].task[1][k] = req[p].task[k]

\* C10 as claimed: of two delete_task requests for the same stored id, exactly
\* one is answered 204 and the other 404.
C10_ExactlyOne204 ==
    \A p \in Clients, q \in Clients :
        (BothDone(p, q, "delete_task") /\ req[p].task_id \in issued) =>
            {resp[p][1].status, resp[q][1].status} = {204, 404}

\* C10 amended: of two delete_task requests for the same stored id, each is
\* answered 204 or 404, 204 exactly when its own SELECT found the row; at
\* least one is answered 204, and the row is gone when both are done.
C10_Each204Or404 ==
    \A p \in Clients, q \in Clients :
        (BothDone(p, q, "delete_task") /\ req[p].task_id \in issued) =>
            /\ resp[p][1].status \in {204, 404}
            /\ resp[p][1].status = 204 <=> db_task[p] # None
            /\ 204 \in {resp[p][1].status, resp[q][1].status}
            /\ req[p].task_id \notin Ids(store)

\* C10's case: both deletes of the same stored id were answered 204.
C10_Witness ==
    \E p \in Clients, q \in Clients :
        /\ BothDone(p, q, "delete_task")
        /\ req[p].task_id \in issued
        /\ resp[p][1].status = 204
        /\ resp[q][1].status = 204

====
